---------------------------- MODULE Spec2Model ----------------------------
(***************************************************************************)
(* The exoplanet transit pipeline as one sequential state machine.         *)
(*                                                                         *)
(*   fetch_star_data.py  --subprocess-->  process_lightcurve.py            *)
(*      --subprocess per item-->  analyze_transits.py                      *)
(*      --subprocess per item-->  generate_plot.py  -->  db_writer.py      *)
(*                                                                         *)
(* Every subprocess.run call blocks its caller, so one control location    *)
(* (pc) and one loop index per stage describe the whole run.  A second     *)
(* specification, SpecBls, calls run_bls directly on bounded inputs.       *)
(***************************************************************************)
EXTENDS Integers, Sequences, FiniteSets, TLC

(***************************************************************************)
(* Bounds of the model.                                                    *)
(***************************************************************************)
\* largest number of identifiers in star_ids_file
MaxBatch == 2
\* largest column length given to run_bls when it is called directly
MaxLen == 3
\* largest number of rows of a raw column given to process_lightcurve directly
MaxRows == 2
\* largest number of tokens of an identifier of star_ids_file
MaxName == 3

(***************************************************************************)
(* Values.  A sample value is a natural number or NaN; a candidate field   *)
(* is a natural number or None.                                            *)
(***************************************************************************)
NaN == 0 - 1
None == 0 - 2
\* np.inf and -np.inf: numbers that are not finite and not NaN
Inf == 0 - 3

isnan(x) == x = NaN

\* the gate of analyze_transit: "if len(time) < 10"
MinDataPoints == 10

Ids == 1 .. MaxBatch

RECURSIVE Rep(_, _)
Rep(x, n) == IF n = 0 THEN <<>> ELSE <<x>> \o Rep(x, n - 1)

\* a FITS table of v clean rows preceded by k rows whose flux is NaN
Table(v, k) ==
    [readable |-> TRUE,
     time     |-> [i \in 1 .. (k + v) |-> i],
     flux     |-> Rep(NaN, k) \o Rep(7, v),
     flux_err |-> Rep(1, k + v)]

\* a file fits.open or the column lookup raises on
Corrupt == [readable |-> FALSE, time |-> <<>>, flux |-> <<>>, flux_err |-> <<>>]

File(t) == [exists |-> TRUE, data |-> t]
NoFile == [exists |-> FALSE, data |-> Corrupt]

\* a table long enough for the detector whose first two uncertainties are
\* NaN: the one of the row with NaN flux and the one of a valid row
NaNErr == [Table(MinDataPoints, 1) EXCEPT !.flux_err[1] = NaN, !.flux_err[2] = NaN]

\* what the provider can deliver for one identifier
RawPool ==
    {Table(MinDataPoints, 1), Table(MinDataPoints - 1, 1), Table(0, 2), NaNErr, Corrupt}

\* what lk.search_lightcurvefile / download / write do for one identifier
Provider ==
    {[kind |-> "empty", table |-> Corrupt], [kind |-> "error", table |-> Corrupt]}
        \cup {[kind |-> "found", table |-> t] : t \in RawPool}

\* artifacts an earlier run left behind: a raw file, and a processed file
\* that is long enough or one valid row short of the gate
StaleRaw == Table(MinDataPoints, 0)
StaleProcessed == Table(MinDataPoints, 0)
StaleShort == Table(MinDataPoints - 1, 1)

(***************************************************************************)
(* The mask of process_lightcurve and analyze_transit:                     *)
(*     valid = ~np.isnan(flux) & ~np.isnan(time);  col = col[valid]        *)
(***************************************************************************)
\* a mask that also drops the samples that are infinite
valid_finite(time, flux) ==
    [i \in 1 .. Len(flux) |->
        ~isnan(flux[i]) /\ ~isnan(time[i]) /\ flux[i] # Inf /\ time[i] # Inf]

valid(time, flux) == [i \in 1 .. Len(flux) |-> ~isnan(flux[i]) /\ ~isnan(time[i])]

RECURSIVE mask(_, _)
mask(col, v) ==
    IF col = <<>> THEN <<>>
    ELSE (IF Head(v) THEN <<Head(col)>> ELSE <<>>) \o mask(Tail(col), Tail(v))

(***************************************************************************)
(* transit_detection.py                                                    *)
(***************************************************************************)
\* a fallback candidate that reports a power of 0 next to three absent fields
empty_results_with_power == [period |-> None, duration |-> None, depth |-> None, power |-> 0]

empty_results == [period |-> None, duration |-> None, depth |-> None, power |-> None]

\* BoxLeastSquares(...).autopower(...) either raises or returns a grid of
\* (period, duration, depth, power) rows
Raises == <<[period |-> None, duration |-> None, depth |-> None, power |-> None]>>
Grid1 == <<[period |-> 1, duration |-> 1, depth |-> 2, power |-> 5],
           [period |-> 2, duration |-> 1, depth |-> 3, power |-> 9],
           [period |-> 3, duration |-> 2, depth |-> 4, power |-> 9]>>
Grid2 == <<[period |-> 4, duration |-> 1, depth |-> 1, power |-> 3]>>
Library == {Raises, Grid1, Grid2}
\* the outcomes of the library met in a pipeline run
PipelineLibrary == {Raises, Grid1}

\* an argmax that returns the last index holding the maximum
argmax_last(power) ==
    CHOOSE i \in 1 .. Len(power) :
        /\ \A j \in 1 .. Len(power) : power[j] <= power[i]
        /\ \A j \in (i + 1) .. Len(power) : power[j] < power[i]

\* np.argmax: the first index holding the maximum
argmax(power) ==
    CHOOSE i \in 1 .. Len(power) :
        /\ \A j \in 1 .. Len(power) : power[j] <= power[i]
        /\ \A j \in 1 .. (i - 1) : power[j] < power[i]

\* a check that lets an empty range minPeriod = maxPeriod through
PeriodRangeInverted(cfg) == cfg.period_range[1] > cfg.period_range[2]

\* line 33: "if period_range[0] >= period_range[1]"
PeriodRangeInvalid(cfg) == cfg.period_range[1] >= cfg.period_range[2]

\* run_bls(time, flux, flux_err, config); lib is what the library does when
\* it is called.  searched: the box search was started; raised: an
\* exception left run_bls.
run_bls(time, flux, flux_err, cfg, lib) ==
    IF Len(time) = 0 \/ Len(flux) = 0 \/ Len(flux_err) = 0
    THEN [result |-> empty_results, searched |-> FALSE, raised |-> FALSE]
    ELSE IF Len(time) # Len(flux) \/ Len(flux) # Len(flux_err)
    THEN [result |-> empty_results, searched |-> FALSE, raised |-> FALSE]
    ELSE IF PeriodRangeInvalid(cfg)
    THEN [result |-> empty_results, searched |-> FALSE, raised |-> FALSE]
    ELSE IF lib = Raises
    THEN [result |-> empty_results, searched |-> TRUE, raised |-> FALSE]
    ELSE LET best_index == argmax([i \in 1 .. Len(lib) |-> lib[i].power])
         IN  [result   |-> [period   |-> lib[best_index].period,
                            duration |-> lib[best_index].duration,
                            depth    |-> lib[best_index].depth,
                            power    |-> lib[best_index].power],
              searched |-> TRUE,
              raised   |-> FALSE]

(***************************************************************************)
(* State of one pipeline run.                                              *)
(***************************************************************************)
VARIABLES
    entry,               \* the stage the operator or scheduler invoked
    env,                 \* what the host offers to this run
    star_ids,            \* content of star_ids_file
    config,              \* bls_parameters of config.json
    run,                 \* how many times the entry stage was invoked so far
    before,              \* the artifacts and inputs of the invocation before
    raw_dir,             \* {raw_data_dir}/ID.fits
    processed_dir,       \* {processed_data_dir}/ID_processed.fits
    png_dir,             \* {processed_data_dir}/ID_processed.png
    png_lines,           \* the series drawn in each ID_processed.png
    results_dir,         \* {output_dir}/ID_processed_results.json
    metrics_dir,         \* visualize_transits_module/data/ID_processed_metrics.png
    pc,                  \* control location of the running process chain
    i_fetch,             \* position of "for star_id in star_ids"
    successful_fetches,
    fetch_log,           \* the calls of fetch_star_data, in order
    trigger_log,         \* the calls of trigger_next_module
    main_result,         \* what fetch_star_data.main returned
    list_raw,            \* os.listdir(raw_data_dir) of process_all_lightcurves
    i_process,
    success_count,
    failure_count,
    process_log,         \* the calls of process_lightcurve, in order
    figure,              \* the series on the pyplot figure of process_lightcurve.py
    list_processed,      \* os.listdir(processed_fits_dir) of analyze_transits
    i_analyze,
    analyze_log,         \* the calls of analyze_transit of the running child
    detected,            \* result records written per identifier in this run
    visualized,          \* metrics charts rendered per identifier in this run
    db_writes,           \* runs of the db_writer sinks per identifier
    exit_code,           \* exit code of each stage process, "none" before
    bls_in,              \* arguments of a direct call of run_bls
    bls_out,             \* what that call returned
    pre_in,              \* the raw columns of a direct call of process_lightcurve
    pre_out,             \* what that call returned and persisted
    pub_in,              \* the files and sinks of a direct run of generate_plot.py
    pub_out,             \* what generate_plot.py and db_writer.py did
    path_in,             \* an identifier and the configured directories
    path_out             \* the paths the stages derive for it

dirs == <<raw_dir, processed_dir, png_dir, png_lines, results_dir, metrics_dir>>
given == <<entry, env, star_ids, config, run, before>>
fetch_vars == <<i_fetch, successful_fetches, fetch_log, trigger_log, main_result>>
process_vars == <<list_raw, i_process, success_count, failure_count, process_log,
                  figure>>
analyze_vars == <<list_processed, i_analyze, analyze_log>>
publish_vars == <<detected, visualized, db_writes>>
bls_vars == <<bls_in, bls_out>>
pre_vars == <<pre_in, pre_out>>
pub_vars == <<pub_in, pub_out>>
path_vars == <<path_in, path_out>>
call_vars == <<bls_vars, pre_vars, pub_vars, path_vars>>
vars == <<given, dirs, pc, fetch_vars, process_vars, analyze_vars, publish_vars,
          exit_code, call_vars>>

(***************************************************************************)
(* The host.  One fault at most is present in a run:                       *)
(*   python   "python" can be started by subprocess.run                    *)
(*   config   config.json can be loaded                                    *)
(*   sections the stage sections config.json holds: "all", or all but      *)
(*            "process_lightcurve", or all but "analyze_transits"          *)
(*   next     process_lightcurve_script: "ok", "unconfigured" (key absent), *)
(*            "missing" (no file at the path)                              *)
(*   analyze  Analyze_Module/scripts/analyze_transits.py exists            *)
(*   plot     visualize_transits_module/scripts/generate_plot.py exists    *)
(*   write    hdu.writeto succeeds                                         *)
(*   order    the order os.listdir returns file names in                   *)
(***************************************************************************)
HostOk == [python |-> TRUE, config |-> TRUE, sections |-> "all", next |-> "ok",
           analyze |-> TRUE, plot |-> TRUE, write |-> TRUE, order |-> "ascending"]

Hosts ==
    {HostOk,
     [HostOk EXCEPT !.order = "descending"],
     [HostOk EXCEPT !.python = FALSE],
     [HostOk EXCEPT !.config = FALSE],
     [HostOk EXCEPT !.sections = "no process_lightcurve"],
     [HostOk EXCEPT !.sections = "no analyze_transits"],
     [HostOk EXCEPT !.next = "unconfigured"],
     [HostOk EXCEPT !.next = "missing"],
     [HostOk EXCEPT !.analyze = FALSE],
     [HostOk EXCEPT !.plot = FALSE],
     [HostOk EXCEPT !.write = FALSE]}

Entries == {"fetch", "process", "analyze"}

\* the identifiers of a batch of n stars
Batch(n) == [i \in 1 .. n |-> i]

\* earlier runs left nothing, a raw file, or a raw and a processed file
\* with its preview, for the first and for the last identifier
StaleKinds == {"nothing", "raw", "processed", "short"}
StaleIds == {id \in Ids : id = 1 \/ id = MaxBatch}
NoResult == [exists |-> FALSE, data |-> empty_results]

Configs == {[period_range |-> <<1, 3>>], [period_range |-> <<2, 2>>]}

NoBls == [time |-> <<>>, flux |-> <<>>, flux_err |-> <<>>,
          config |-> [period_range |-> <<1, 3>>], lib |-> Raises]
NoOut == [result |-> empty_results, searched |-> FALSE, raised |-> FALSE]

\* a raw column as fits.open delivers it, held as its sub-columns: a 1-D
\* array is its only sub-column, a 2-D array a[i, j] is cols[j + 1][i + 1]
Column1D(q) == [ndim |-> 1, cols |-> <<q>>]
Column2D(q) == [ndim |-> 2, cols |-> <<q, Rep(9, Len(q))>>]

NoPre == [time |-> Column1D(<<>>), flux |-> Column1D(<<>>), flux_err |-> Column1D(<<>>)]
NoPreOut == [ret |-> "none", saved |-> FALSE, data |-> Corrupt]

\* the four fields of a result record
Keys == {"period", "duration", "depth", "power"}

NoPub == [results |-> empty_results, results_exists |-> FALSE, tic |-> FALSE,
          processed_png |-> FALSE, metrics_png |-> FALSE, logs |-> FALSE, minio |-> FALSE, oracle |-> FALSE]
NoPubOut == [values |-> <<>>, metrics |-> FALSE, calls |-> <<>>, uploaded |-> FALSE,
             inserted |-> FALSE, db_writer |-> "none", exit |-> "none"]

NoPath == [star_id |-> <<>>, processed_data_dir |-> "none",
           processed_fits_path |-> "none", output_dir |-> "none",
           period_range |-> <<1, 3>>, lib |-> Raises]
NoPathOut == [raw |-> <<>>, tic_id |-> <<>>]

BlsIdle == bls_in = NoBls /\ bls_out = NoOut
PreIdle == pre_in = NoPre /\ pre_out = NoPreOut
PubIdle == pub_in = NoPub /\ pub_out = NoPubOut
PathIdle == path_in = NoPath /\ path_out = NoPathOut

\* nothing was invoked before this run
NoRun == [raw |-> [id \in Ids |-> NoFile], processed |-> [id \in Ids |-> NoFile],
          png |-> {}, png_lines |-> [id \in Ids |-> {}], results |-> {},
          fetch_log |-> <<>>]

Idle ==
    /\ run = 1 /\ before = NoRun
    /\ i_fetch = 1 /\ successful_fetches = 0 /\ fetch_log = <<>>
    /\ trigger_log = <<>> /\ main_result = "none"
    /\ list_raw = <<>> /\ i_process = 1 /\ success_count = 0 /\ failure_count = 0
    /\ process_log = <<>> /\ figure = {}
    /\ list_processed = <<>> /\ i_analyze = 1 /\ analyze_log = <<>>
    /\ detected = [id \in Ids |-> 0]
    /\ visualized = [id \in Ids |-> 0]
    /\ db_writes = [id \in Ids |-> 0]
    /\ exit_code = [s \in Entries |-> "none"]

Init ==
    /\ entry \in Entries
    /\ env \in Hosts
    /\ \E n \in 0 .. MaxBatch : star_ids = Batch(n)
    /\ config \in Configs
    /\ \E stale \in [StaleIds -> StaleKinds] :
        /\ raw_dir = [id \in Ids |->
              IF id \in StaleIds /\ stale[id] # "nothing" THEN File(StaleRaw) ELSE NoFile]
        /\ processed_dir = [id \in Ids |->
              IF id \in StaleIds /\ stale[id] = "processed" THEN File(StaleProcessed)
              ELSE IF id \in StaleIds /\ stale[id] = "short" THEN File(StaleShort)
              ELSE NoFile]
        /\ png_dir = {id \in StaleIds : stale[id] \in {"processed", "short"}}
        /\ png_lines = [id \in Ids |->
              IF id \in StaleIds /\ stale[id] \in {"processed", "short"} THEN {id}
              ELSE {}]
    /\ results_dir = [id \in Ids |-> NoResult]
    /\ metrics_dir = {}
    /\ pc = entry
    /\ Idle
    /\ BlsIdle /\ PreIdle /\ PubIdle /\ PathIdle

(***************************************************************************)
(* Data_Download_Module/scripts/fetch_star_data.py                         *)
(***************************************************************************)
\* fetch_star_data(star_id, config): ret is None or the elapsed time
fetch_star_data(star_id, provider) ==
    IF provider.kind = "empty"
    THEN [ret |-> "None", raw |-> raw_dir]
    ELSE IF provider.kind = "error"
    THEN [ret |-> "None", raw |-> raw_dir]
    ELSE [ret |-> "elapsed", raw |-> [raw_dir EXCEPT ![star_id] = File(provider.table)]]

\* trigger_next_module() up to subprocess.run: "raise" is an exception the
\* function does not catch, "False" its return value, "spawn" a started child
trigger_next_module ==
    IF env.next = "unconfigured" THEN "raise"
    ELSE IF env.next = "missing" THEN "False"
    ELSE IF ~env.python THEN "raise"
    ELSE "spawn"

\* main(), lines 133-146
main_start ==
    /\ pc = "fetch"
    /\ IF ~env.config \/ star_ids = <<>>
       THEN /\ main_result' = "False"
            /\ exit_code' = [exit_code EXCEPT !["fetch"] = "1"]
            /\ pc' = "done"
       ELSE /\ pc' = "fetch_loop"
            /\ UNCHANGED <<main_result, exit_code>>
    /\ UNCHANGED <<given, dirs, i_fetch, successful_fetches, fetch_log, trigger_log,
                   process_vars, analyze_vars, publish_vars, call_vars>>

\* the position of the loop after the body ran for star_ids[i_fetch]
next_star(result) == i_fetch + 1

\* "for star_id in star_ids" has run out of stars
stars_left == i_fetch <= Len(star_ids)

\* main(), lines 150-158: one pass of "for star_id in star_ids"
main_loop ==
    /\ pc = "fetch_loop"
    /\ stars_left
    /\ \E provider \in Provider :
        LET star_id == star_ids[i_fetch]
            r == fetch_star_data(star_id, provider)
        IN  /\ raw_dir' = r.raw
            /\ successful_fetches' =
                  IF r.ret # "None" THEN successful_fetches + 1 ELSE successful_fetches
            /\ fetch_log' = Append(fetch_log,
                  [star_id |-> star_id, result |-> r.ret, table |-> provider.table])
            /\ i_fetch' = next_star(r.ret)
    /\ UNCHANGED <<given, processed_dir, png_dir, png_lines, results_dir, metrics_dir,
                   pc, trigger_log, main_result, process_vars, analyze_vars,
                   publish_vars, exit_code, call_vars>>

\* a trigger that does not look at the number of successes
batch_succeeded_always == successful_fetches >= 0

\* main() decides after the loop whether the next module is triggered
batch_succeeded == successful_fetches > 0

\* a trigger placed inside the loop body
loop_over_early == i_fetch > 1

\* the statements after the loop are reached
loop_over == ~stars_left

\* main(), lines 160-172: summary, trigger_next_module, return
main_finish ==
    /\ pc = "fetch_loop"
    /\ loop_over
    /\ IF batch_succeeded
       THEN LET t == trigger_next_module
            IN  /\ trigger_log' = Append(trigger_log, [after |-> Len(fetch_log), outcome |-> t])
                /\ IF t = "spawn"
                   THEN /\ pc' = "process"
                        /\ UNCHANGED <<main_result, exit_code>>
                   ELSE /\ main_result' = (IF t = "raise" THEN "False" ELSE "True")
                        /\ exit_code' = [exit_code EXCEPT
                              !["fetch"] = IF t = "raise" THEN "1" ELSE "0"]
                        /\ pc' = "done"
       ELSE /\ main_result' = "False"
            /\ exit_code' = [exit_code EXCEPT !["fetch"] = "1"]
            /\ pc' = "done"
            /\ UNCHANGED trigger_log
    /\ UNCHANGED <<given, dirs, i_fetch, successful_fetches, fetch_log,
                   process_vars, analyze_vars, publish_vars, call_vars>>

\* the child process_lightcurve.py ended with exit code c: subprocess.run
\* returns or raises CalledProcessError, and main returns True
process_exit(c) ==
    /\ exit_code' = [exit_code EXCEPT
          !["process"] = c, !["fetch"] = IF entry = "fetch" THEN "0" ELSE @]
    /\ main_result' = IF entry = "fetch" THEN "True" ELSE main_result
    /\ trigger_log' = IF entry = "fetch"
                      THEN [trigger_log EXCEPT ![Len(trigger_log)].outcome =
                               IF c = "0" THEN "True" ELSE "False"]
                      ELSE trigger_log
    /\ pc' = "done"

(***************************************************************************)
(* os.listdir filtered by file_name.endswith(".fits"): the identifiers of  *)
(* the files of a directory, in the order the host returns them            *)
(***************************************************************************)
RECURSIVE ascending(_)
ascending(S) ==
    IF S = {} THEN <<>>
    ELSE LET m == CHOOSE x \in S : \A y \in S : x <= y
         IN  <<m>> \o ascending(S \ {m})

reverse(q) == [i \in 1 .. Len(q) |-> q[Len(q) + 1 - i]]

listdir(dir) ==
    LET names == ascending({id \in Ids : dir[id].exists})
    IN  IF env.order = "ascending" THEN names ELSE reverse(names)

(***************************************************************************)
(* Process_Light_Curve_Module/scripts/process_lightcurve.py                *)
(***************************************************************************)
\* trigger_analyze_transits(processed_fits_path) up to subprocess.run
trigger_analyze_transits ==
    IF ~env.analyze THEN "False"
    ELSE IF ~env.python THEN "raise"
    ELSE "spawn"

\* a mask that is not applied to the uncertainty column
clean_err_unmasked(data) ==
    LET v == valid(data.time, data.flux)
    IN  [readable |-> TRUE,
         time     |-> mask(data.time, v),
         flux     |-> mask(data.flux, v),
         flux_err |-> data.flux_err]

\* a mask that also drops the samples whose uncertainty is NaN
clean_err_checked(data) ==
    LET v == [i \in 1 .. Len(data.time) |->
                 valid(data.time, data.flux)[i] /\ ~isnan(data.flux_err[i])]
    IN  [readable |-> TRUE,
         time     |-> mask(data.time, v),
         flux     |-> mask(data.flux, v),
         flux_err |-> mask(data.flux_err, v)]

\* lines 61-65
clean(data) ==
    LET v == valid(data.time, data.flux)
    IN  [readable |-> TRUE,
         time     |-> mask(data.time, v),
         flux     |-> mask(data.flux, v),
         flux_err |-> mask(data.flux_err, v)]

\* a save that adds the rows to the table an earlier run left at the path
save_processed_fits_appending(id, data) ==
    IF ~env.write THEN processed_dir
    ELSE IF ~processed_dir[id].exists THEN [processed_dir EXCEPT ![id] = File(data)]
    ELSE [processed_dir EXCEPT ![id] =
             File([readable |-> TRUE,
                   time     |-> processed_dir[id].data.time \o data.time,
                   flux     |-> processed_dir[id].data.flux \o data.flux,
                   flux_err |-> processed_dir[id].data.flux_err \o data.flux_err])]

\* save_processed_fits: the exception of a failed write is logged and dropped
save_processed_fits(id, data) ==
    IF env.write THEN [processed_dir EXCEPT ![id] = File(data)] ELSE processed_dir

\* lines 50-56: a column of more than one dimension keeps its first sub-column
flatten(col) ==
    IF col.ndim > 1 THEN col.cols[1] ELSE Head(col.cols)

\* the length of a & b under numpy broadcasting, Mismatch when it raises
Mismatch == 0 - 1
broadcast(a, b) ==
    IF a = b THEN a ELSE IF a = 1 THEN b ELSE IF b = 1 THEN a ELSE Mismatch

\* col[valid] raises IndexError unless the boolean index is as long as col
indexable(col, n) == Len(col) = n

\* lines 62-65 run without an exception
maskable(time, flux, flux_err) ==
    LET n == broadcast(Len(flux), Len(time))
    IN  /\ n # Mismatch
        /\ indexable(time, n) /\ indexable(flux, n) /\ indexable(flux_err, n)

\* process_lightcurve on the columns raw, lines 43-90, on a host where the
\* plot, the write and the handoff succeed: ret is what the function
\* returns, data the table save_processed_fits persisted
preprocess(raw) ==
    LET time == flatten(raw.time)
        flux == flatten(raw.flux)
        flux_err == flatten(raw.flux_err)
    IN  IF ~maskable(time, flux, flux_err)
        THEN [ret |-> "False", saved |-> FALSE, data |-> Corrupt]
        ELSE [ret   |-> "True",
              saved |-> TRUE,
              data  |-> clean([readable |-> TRUE, time |-> time, flux |-> flux,
                               flux_err |-> flux_err])]

\* lines 67-73: plt.plot draws on the current figure of pyplot, which no
\* statement of the script opens, clears or closes
plt_plot(id) == figure \cup {id}

\* process_lightcurve(file_path, output_dir) up to subprocess.run.
\* ret: "False" (the except branch), "True", or "child" while
\* analyze_transits.py runs; after the child the function returns True.
process_lightcurve(id) ==
    IF ~raw_dir[id].data.readable
    THEN [ret |-> "False", saved |-> FALSE, handoff |-> "none",
          png |-> png_dir, lines |-> png_lines, fig |-> figure,
          processed |-> processed_dir]
    ELSE LET t == trigger_analyze_transits
         IN  [ret       |-> IF t = "raise" THEN "False"
                            ELSE IF t = "spawn" THEN "child" ELSE "True",
              saved     |-> env.write,
              handoff   |-> t,
              png       |-> png_dir \cup {id},
              lines     |-> [png_lines EXCEPT ![id] = plt_plot(id)],
              fig       |-> plt_plot(id),
              processed |-> save_processed_fits(id, clean(raw_dir[id].data))]

\* main(), lines 165-177, and the os.listdir of process_all_lightcurves
process_main ==
    /\ pc = "process"
    /\ IF ~env.config \/ env.sections = "no process_lightcurve"
       THEN /\ process_exit(IF env.config THEN "1" ELSE "0")
            /\ UNCHANGED <<list_raw, i_process>>
       ELSE /\ list_raw' = listdir(raw_dir)
            /\ i_process' = 1
            /\ pc' = "process_loop"
            /\ UNCHANGED <<main_result, exit_code, trigger_log>>
    /\ UNCHANGED <<given, dirs, i_fetch, successful_fetches, fetch_log,
                   success_count, failure_count, process_log, figure,
                   analyze_vars, publish_vars, call_vars>>

\* the position of the loop after process_lightcurve returned
next_file(success) == i_process + 1

\* process_all_lightcurves, lines 121-131: one pass of the loop, up to the
\* return of process_lightcurve or to the start of its child
process_loop ==
    /\ pc = "process_loop"
    /\ i_process <= Len(list_raw)
    /\ LET id == list_raw[i_process]
           r == process_lightcurve(id)
       IN  /\ png_dir' = r.png
           /\ png_lines' = r.lines
           /\ figure' = r.fig
           /\ processed_dir' = r.processed
           /\ process_log' = Append(process_log,
                 [file |-> id, result |-> r.ret, saved |-> r.saved,
                  handoff |-> r.handoff])
           /\ IF r.ret = "child"
              THEN /\ pc' = "analyze"
                   /\ UNCHANGED <<i_process, success_count, failure_count>>
              ELSE /\ success_count' = IF r.ret = "True" THEN success_count + 1
                                       ELSE success_count
                   /\ failure_count' = IF r.ret = "True" THEN failure_count
                                       ELSE failure_count + 1
                   /\ i_process' = next_file(r.ret = "True")
                   /\ pc' = pc
    /\ UNCHANGED <<given, raw_dir, results_dir, metrics_dir, fetch_vars, list_raw,
                   analyze_vars, publish_vars, exit_code, call_vars>>

\* process_all_lightcurves returns its summary and main() ends
process_finish ==
    /\ pc = "process_loop"
    /\ i_process > Len(list_raw)
    /\ process_exit("0")
    /\ UNCHANGED <<given, dirs, i_fetch, successful_fetches, fetch_log,
                   process_vars, analyze_vars, publish_vars, call_vars>>

\* what process_all_lightcurves returns
summary == [success |-> success_count, failure |-> failure_count]

\* the child analyze_transits.py ended with exit code c.  Invoked on its
\* own the run is over; as a child, subprocess.run returns (or raises
\* CalledProcessError) in trigger_analyze_transits, process_lightcurve
\* returns True and process_all_lightcurves counts the file.
analyze_exit(c) ==
    /\ exit_code' = [exit_code EXCEPT !["analyze"] = c]
    /\ IF entry = "analyze"
       THEN /\ pc' = "done"
            /\ UNCHANGED process_vars
       ELSE /\ process_log' = [process_log EXCEPT
                 ![Len(process_log)].result = "True",
                 ![Len(process_log)].handoff = c]
            /\ success_count' = success_count + 1
            /\ i_process' = next_file(TRUE)
            /\ pc' = "process_loop"
            /\ UNCHANGED <<list_raw, failure_count, figure>>

(***************************************************************************)
(* visualize_transits_module/scripts: generate_plot.py and db_writer.py    *)
(***************************************************************************)
\* results.get(key, 0): the default applies only when the key is missing
get(results, key) == IF key \in DOMAIN results THEN results[key] ELSE 0

\* generate_visualization, lines 32-41: the heights handed to plt.bar
values(results) ==
    <<get(results, "period"), get(results, "duration"), get(results, "depth"),
      get(results, "power")>>

\* plt.bar raises on a value that is None
plottable(results) == \A k \in 1 .. 4 : values(results)[k] # None

\* an upload whose exception is not caught inside the function
upload_to_minio_uncaught(up, file_exists) ==
    IF ~up THEN "raise" ELSE IF ~file_exists THEN "False" ELSE "True"

\* db_writer.upload_to_minio: every exception is caught and gives False
upload_to_minio(up, file_exists) ==
    IF ~up THEN "False" ELSE IF ~file_exists THEN "False" ELSE "True"

\* db_writer.insert_results_into_oracle: the connection error and the
\* KeyError of a missing field are caught and give False
insert_results_into_oracle(up, result_data) ==
    IF ~up THEN "False" ELSE IF Keys \subseteq DOMAIN result_data THEN "True" ELSE "False"

\* a db_writer.py that does not look for the metrics chart before it
\* starts its uploads
db_writer_without_metrics_check(in) ==
    IF ~in.logs
    THEN [calls |-> <<>>, uploaded |-> FALSE, inserted |-> FALSE, exit |-> "1"]
    ELSE IF ~in.processed_png \/ ~in.results_exists
    THEN [calls |-> <<>>, uploaded |-> FALSE, inserted |-> FALSE, exit |-> "0"]
    ELSE [calls |-> <<"upload processed", "upload metrics", "insert">>,
          uploaded |-> upload_to_minio(in.minio, in.processed_png) = "True",
          inserted |-> insert_results_into_oracle(in.oracle, in.results) = "True",
          exit |-> "0"]

\* db_writer.py run for an identifier: the module body (the log handler)
\* and main.  calls: the sink calls made, in order; exit: the exit code
db_writer(in) ==
    IF ~in.logs
    THEN [calls |-> <<>>, uploaded |-> FALSE, inserted |-> FALSE, exit |-> "1"]
    ELSE IF ~in.processed_png \/ ~in.metrics_png \/ ~in.results_exists
    THEN [calls |-> <<>>, uploaded |-> FALSE, inserted |-> FALSE, exit |-> "0"]
    ELSE LET u1 == upload_to_minio(in.minio, in.processed_png)
             u2 == upload_to_minio(in.minio, in.metrics_png)
             ins == insert_results_into_oracle(in.oracle, in.results)
         IN  IF u1 = "raise"
             THEN [calls |-> <<"upload processed">>, uploaded |-> FALSE,
                   inserted |-> FALSE, exit |-> "0"]
             ELSE IF u2 = "raise"
             THEN [calls |-> <<"upload processed", "upload metrics">>,
                   uploaded |-> u1 = "True", inserted |-> FALSE, exit |-> "0"]
             ELSE [calls |-> <<"upload processed", "upload metrics", "insert">>,
                   uploaded |-> u1 = "True" \/ u2 = "True",
                   inserted |-> ins = "True", exit |-> "0"]

\* a publisher that starts db_writer.py without the check of the file name
generate_plot_main_any_name(in) ==
    IF ~in.results_exists
    THEN [NoPubOut EXCEPT !.exit = "1"]
    ELSE IF ~plottable(in.results)
    THEN [NoPubOut EXCEPT !.values = values(in.results), !.exit = "1"]
    ELSE LET d == db_writer(in)
         IN  [values |-> values(in.results), metrics |-> TRUE, calls |-> d.calls,
              uploaded |-> d.uploaded, inserted |-> d.inserted, db_writer |-> d.exit,
              exit |-> IF d.exit = "0" THEN "0" ELSE "1"]

\* generate_plot.py run on a results path, lines 72-103
generate_plot_main(in) ==
    IF ~in.results_exists
    THEN [NoPubOut EXCEPT !.exit = "1"]
    ELSE IF ~plottable(in.results)
    THEN [NoPubOut EXCEPT !.values = values(in.results), !.exit = "1"]
    ELSE IF ~in.tic
    THEN [NoPubOut EXCEPT !.values = values(in.results), !.metrics = TRUE, !.exit = "1"]
    ELSE LET d == db_writer([in EXCEPT !.metrics_png = TRUE])
         IN  [values |-> values(in.results), metrics |-> TRUE, calls |-> d.calls,
              uploaded |-> d.uploaded, inserted |-> d.inserted, db_writer |-> d.exit,
              exit |-> IF d.exit = "0" THEN "0" ELSE "1"]

\* generate_plot.py run on the result record of id, and db_writer.py after
\* it.  metrics: the chart was written; sinks: db_writer got past its three
\* existence checks and invoked its sinks; exit: exit code of generate_plot
generate_plot(id, results, png) ==
    LET r == generate_plot_main([results |-> results, results_exists |-> TRUE,
                 tic |-> TRUE, processed_png |-> id \in png,
                 metrics_png |-> id \in metrics_dir, logs |-> TRUE,
                 minio |-> TRUE, oracle |-> TRUE])
    IN  [exit |-> r.exit, metrics |-> r.metrics, sinks |-> r.calls # <<>>]

(***************************************************************************)
(* Analyze_Module/scripts/analyze_transits.py                              *)
(***************************************************************************)
\* a gate that is off by one and lets 9 samples through
insufficient_below_nine(time) == Len(time) < MinDataPoints - 1

\* line 58: "if len(time) < 10"
insufficient(time) == Len(time) < MinDataPoints

\* analyze_transit(file_path, output_dir, config); lib is what the library
\* does if run_bls reaches it, err the uncertainties handed to run_bls
analyze_transit(id, lib) ==
    LET data == processed_dir[id].data
        cleaned == clean(data)
    IN  IF ~processed_dir[id].exists \/ ~data.readable
        THEN [ret |-> FALSE, bls |-> FALSE, n |-> 0, err |-> <<>>, results |-> results_dir]
        ELSE IF insufficient(cleaned.time)
        THEN [ret |-> FALSE, bls |-> FALSE, n |-> Len(cleaned.time), err |-> <<>>,
              results |-> results_dir]
        ELSE LET transit_results ==
                     run_bls(cleaned.time, cleaned.flux, cleaned.flux_err, config, lib).result
             IN  [ret     |-> TRUE,
                  bls     |-> TRUE,
                  n       |-> Len(cleaned.time),
                  err     |-> cleaned.flux_err,
                  results |-> [results_dir EXCEPT ![id] =
                                  [exists |-> TRUE, data |-> transit_results]]]

\* trigger_visualize(results_path) up to subprocess.run
trigger_visualize ==
    IF ~env.plot THEN "False"
    ELSE IF ~env.python THEN "raise"
    ELSE "spawn"

\* the files the main loop of analyze_transits.py runs over: sys.argv is
\* not read, the loop takes every .fits file of processed_fits_dir
analyze_files == listdir(processed_dir)

\* __main__, lines 114-135
analyze_main ==
    /\ pc = "analyze"
    /\ IF ~env.config \/ env.sections = "no analyze_transits"
       THEN /\ analyze_exit("1")
            /\ UNCHANGED analyze_vars
       ELSE /\ list_processed' = analyze_files
            /\ i_analyze' = 1
            /\ analyze_log' = <<>>
            /\ pc' = "analyze_loop"
            /\ UNCHANGED <<process_vars, exit_code>>
    /\ UNCHANGED <<given, dirs, fetch_vars, publish_vars, call_vars>>

\* __main__, lines 135-151: one pass of the loop, with the publisher child
analyze_loop ==
    /\ pc = "analyze_loop"
    /\ i_analyze <= Len(list_processed)
    /\ \E lib \in PipelineLibrary :
       LET id == list_processed[i_analyze]
           a == analyze_transit(id, lib)
           t == IF a.ret THEN trigger_visualize ELSE "none"
           g == generate_plot(id, a.results[id].data, png_dir)
       IN  /\ results_dir' = a.results
           /\ detected' = IF a.ret THEN [detected EXCEPT ![id] = @ + 1] ELSE detected
           /\ metrics_dir' = IF t = "spawn" /\ g.metrics
                             THEN metrics_dir \cup {id} ELSE metrics_dir
           /\ visualized' = IF t = "spawn" /\ g.metrics
                            THEN [visualized EXCEPT ![id] = @ + 1] ELSE visualized
           /\ db_writes' = IF t = "spawn" /\ g.sinks
                           THEN [db_writes EXCEPT ![id] = @ + 1] ELSE db_writes
           /\ analyze_log' = Append(analyze_log,
                 [file |-> id, result |-> a.ret, n |-> a.n, bls |-> a.bls,
                  nan_err |-> \E i \in 1 .. Len(a.err) : isnan(a.err[i]),
                  visualize |-> IF t = "spawn" THEN g.exit ELSE t])
           /\ IF t = "raise"
              THEN /\ analyze_exit("1")
                   /\ UNCHANGED <<list_processed, i_analyze>>
              ELSE /\ i_analyze' = i_analyze + 1
                   /\ UNCHANGED <<list_processed, pc, process_vars, exit_code>>
    /\ UNCHANGED <<given, raw_dir, processed_dir, png_dir, png_lines, fetch_vars,
                   call_vars>>

\* the loop is over and the script ends
analyze_finish ==
    /\ pc = "analyze_loop"
    /\ i_analyze > Len(list_processed)
    /\ analyze_exit("0")
    /\ UNCHANGED <<given, dirs, fetch_vars, analyze_vars, publish_vars, call_vars>>

(***************************************************************************)
(* The pipeline run                                                        *)
(***************************************************************************)
Next ==
    \/ main_start
    \/ main_loop
    \/ main_finish
    \/ process_main
    \/ process_loop
    \/ process_finish
    \/ analyze_main
    \/ analyze_loop
    \/ analyze_finish

Spec == Init /\ [][Next]_vars

(***************************************************************************)
(* The entry stage invoked again on the directories its first run left:    *)
(* a new process, the same configuration, the same star_ids_file           *)
(***************************************************************************)
\* the claim is about a stage run twice
MaxRuns == 2
\* the stars of a batch that is acquired twice
RerunBatch == 1

\* the files with a result record
result_files == {id \in Ids : results_dir[id].exists}

InitRerun ==
    /\ entry \in Entries
    /\ env \in {HostOk, [HostOk EXCEPT !.order = "descending"]}
    /\ \E n \in 0 .. RerunBatch : star_ids = Batch(n)
    /\ config = [period_range |-> <<1, 3>>]
    /\ \E stale \in SUBSET (1 .. RerunBatch) :
        raw_dir = [id \in Ids |-> IF id \in stale THEN File(StaleRaw) ELSE NoFile]
    /\ processed_dir = [id \in Ids |-> NoFile]
    /\ png_dir = {} /\ png_lines = [id \in Ids |-> {}]
    /\ results_dir = [id \in Ids |-> NoResult]
    /\ metrics_dir = {}
    /\ pc = entry
    /\ Idle
    /\ BlsIdle /\ PreIdle /\ PubIdle /\ PathIdle

\* the operator or the scheduler starts the entry stage once more
rerun ==
    /\ pc = "done"
    /\ run < MaxRuns
    /\ run' = run + 1
    /\ before' = [raw |-> raw_dir, processed |-> processed_dir, png |-> png_dir,
                  png_lines |-> png_lines, results |-> result_files,
                  fetch_log |-> fetch_log]
    /\ pc' = entry
    /\ i_fetch' = 1 /\ successful_fetches' = 0 /\ fetch_log' = <<>>
    /\ trigger_log' = <<>> /\ main_result' = "none"
    /\ list_raw' = <<>> /\ i_process' = 1 /\ success_count' = 0 /\ failure_count' = 0
    /\ process_log' = <<>> /\ figure' = {}
    /\ list_processed' = <<>> /\ i_analyze' = 1 /\ analyze_log' = <<>>
    /\ detected' = [id \in Ids |-> 0]
    /\ visualized' = [id \in Ids |-> 0]
    /\ db_writes' = [id \in Ids |-> 0]
    /\ exit_code' = [s \in Entries |-> "none"]
    /\ UNCHANGED <<entry, env, star_ids, config, dirs, call_vars>>

NextRerun ==
    \/ Next
    \/ rerun

SpecRerun == InitRerun /\ [][NextRerun]_vars

(***************************************************************************)
(* run_bls called directly, on any columns and any period range            *)
(***************************************************************************)
Columns == {Rep(1, n) : n \in 0 .. MaxLen}
PeriodRanges == {<<a, b>> : a \in 1 .. 3, b \in 1 .. 3}

InitBls ==
    /\ entry = "analyze" /\ env = HostOk /\ star_ids = <<>>
    /\ config = [period_range |-> <<1, 3>>]
    /\ raw_dir = [id \in Ids |-> NoFile]
    /\ processed_dir = [id \in Ids |-> NoFile]
    /\ png_dir = {} /\ png_lines = [id \in Ids |-> {}]
    /\ results_dir = [id \in Ids |-> NoResult]
    /\ metrics_dir = {}
    /\ pc = "run_bls"
    /\ Idle
    /\ bls_in \in [time : Columns, flux : Columns, flux_err : Columns,
                   config : [period_range : PeriodRanges], lib : Library]
    /\ bls_out = NoOut
    /\ PreIdle /\ PubIdle /\ PathIdle

bls_call ==
    /\ pc = "run_bls"
    /\ bls_out' = run_bls(bls_in.time, bls_in.flux, bls_in.flux_err, bls_in.config,
                          bls_in.lib)
    /\ pc' = "returned"
    /\ UNCHANGED <<given, dirs, fetch_vars, process_vars, analyze_vars, publish_vars,
                   exit_code, bls_in, pre_vars, pub_vars, path_vars>>

NextBls == bls_call

SpecBls == InitBls /\ [][NextBls]_vars

(***************************************************************************)
(* process_lightcurve called directly, on any three raw columns            *)
(***************************************************************************)
\* the sequences over V of at most n elements
SeqsUpTo(V, n) == UNION {[1 .. k -> V] : k \in 0 .. n}
RawColumns(V) ==
    {Column1D(q) : q \in SeqsUpTo(V, MaxRows)} \cup {Column2D(q) : q \in SeqsUpTo(V, MaxRows)}

TimeValues == {1, 2, NaN, Inf}
FluxValues == {7, NaN, Inf}
ErrValues == {1, NaN}

\* no pipeline run is under way
NoPipeline ==
    /\ entry = "process" /\ env = HostOk /\ star_ids = <<>>
    /\ config = [period_range |-> <<1, 3>>]
    /\ raw_dir = [id \in Ids |-> NoFile]
    /\ processed_dir = [id \in Ids |-> NoFile]
    /\ png_dir = {} /\ png_lines = [id \in Ids |-> {}]
    /\ results_dir = [id \in Ids |-> NoResult]
    /\ metrics_dir = {}
    /\ Idle

InitPre ==
    /\ NoPipeline
    /\ pc = "preprocess"
    /\ BlsIdle
    /\ pre_in \in [time : RawColumns(TimeValues), flux : RawColumns(FluxValues),
                    flux_err : RawColumns(ErrValues)]
    /\ pre_out = NoPreOut
    /\ PubIdle /\ PathIdle

preprocess_call ==
    /\ pc = "preprocess"
    /\ pre_out' = preprocess(pre_in)
    /\ pc' = "preprocessed"
    /\ UNCHANGED <<given, dirs, fetch_vars, process_vars, analyze_vars, publish_vars,
                   exit_code, bls_vars, pre_in, pub_vars, path_vars>>

NextPre == preprocess_call

SpecPre == InitPre /\ [][NextPre]_vars

(***************************************************************************)
(* generate_plot.py run directly on a results file                         *)
(***************************************************************************)
\* the result files: each field a number, null, or not in the file
ResultFiles == UNION {[K -> {None, 3}] : K \in SUBSET Keys}

InitPub ==
    /\ NoPipeline
    /\ pc = "publish"
    /\ BlsIdle /\ PreIdle /\ PathIdle
    /\ pub_in \in [results : ResultFiles, results_exists : BOOLEAN, tic : BOOLEAN,
                    processed_png : BOOLEAN, metrics_png : BOOLEAN, logs : BOOLEAN,
                    minio : BOOLEAN, oracle : BOOLEAN]
    /\ pub_out = NoPubOut

publish_call ==
    /\ pc = "publish"
    /\ pub_out' = generate_plot_main(pub_in)
    /\ pc' = "published"
    /\ UNCHANGED <<given, dirs, fetch_vars, process_vars, analyze_vars, publish_vars,
                   exit_code, bls_vars, pre_vars, pub_in, path_vars>>

NextPub == publish_call

SpecPub == InitPub /\ [][NextPub]_vars

(***************************************************************************)
(* db_writer.py run directly for an identifier                             *)
(***************************************************************************)
InitDb ==
    /\ NoPipeline
    /\ pc = "db_writer"
    /\ BlsIdle /\ PreIdle /\ PathIdle
    /\ pub_in \in [results : ResultFiles, results_exists : BOOLEAN, tic : {TRUE},
                    processed_png : BOOLEAN, metrics_png : BOOLEAN, logs : BOOLEAN,
                    minio : BOOLEAN, oracle : BOOLEAN]
    /\ pub_out = NoPubOut

db_writer_call ==
    /\ pc = "db_writer"
    /\ LET d == db_writer(pub_in)
       IN  pub_out' = [NoPubOut EXCEPT !.calls = d.calls, !.uploaded = d.uploaded,
                          !.inserted = d.inserted, !.db_writer = d.exit]
    /\ pc' = "written"
    /\ UNCHANGED <<given, dirs, fetch_vars, process_vars, analyze_vars, publish_vars,
                   exit_code, bls_vars, pre_vars, pub_in, path_vars>>

NextDb == db_writer_call

SpecDb == InitDb /\ [][NextDb]_vars

(***************************************************************************)
(* File names.  A name is a sequence of tokens: the pieces of an            *)
(* identifier ("TIC", "KIC", " ", "_", "1") and the suffixes the stages    *)
(* append.  A path is a directory and a name.                              *)
(***************************************************************************)
\* str.replace(old, new): every occurrence of old, from the left
RECURSIVE replace(_, _, _)
replace(s, old, new) ==
    IF Len(s) < Len(old) THEN s
    ELSE IF SubSeq(s, 1, Len(old)) = old
    THEN new \o replace(SubSeq(s, Len(old) + 1, Len(s)), old, new)
    ELSE <<Head(s)>> \o replace(Tail(s), old, new)

\* the index at which sep first occurs in s, 0 when it does not
find(s, sep) ==
    LET at == {k \in 1 .. (Len(s) - Len(sep) + 1) : SubSeq(s, k, k + Len(sep) - 1) = sep}
    IN  IF at = {} THEN 0 ELSE CHOOSE k \in at : \A j \in at : k <= j

startswith(s, prefix) == Len(s) >= Len(prefix) /\ SubSeq(s, 1, Len(prefix)) = prefix

path_join(dir, name) == [dir |-> dir, name |-> name]

\* fetch_star_data, lines 82-84
raw_output_path(star_id, raw_data_dir) ==
    path_join(raw_data_dir, replace(star_id, <<" ">>, <<"_">>) \o <<".fits">>)

\* process_lightcurve, lines 68 and 77
plot_path(file_name, output_dir) ==
    path_join(output_dir, replace(file_name, <<".fits">>, <<"_processed", ".png">>))
processed_fits_path(file_name, output_dir) ==
    path_join(output_dir, replace(file_name, <<".fits">>, <<"_processed", ".fits">>))

\* a results path that keeps the .fits of the processed file name
results_path_appended(file_name, output_dir) ==
    path_join(output_dir, file_name \o <<"_results", ".json">>)

\* analyze_transit, line 70, and the same expression in line 145
results_path(file_name, output_dir) ==
    path_join(output_dir, replace(file_name, <<".fits">>, <<"_results", ".json">>))

\* generate_visualization, lines 49-50
metrics_path(results_name) ==
    path_join("visualize_transits_module/data",
              replace(results_name, <<"_results", ".json">>, <<"_metrics", ".png">>))

\* generate_plot.py, lines 88-93: the identifier read off the file name,
\* ok FALSE for the ValueError
tic_id_of(filename) ==
    LET sep == <<"_processed", "_results", ".json">>
    IN  IF startswith(filename, <<"TIC">>) /\ find(filename, sep) > 0
        THEN [ok |-> TRUE, tic_id |-> SubSeq(filename, 1, find(filename, sep) - 1)]
        ELSE [ok |-> FALSE, tic_id |-> <<>>]

\* db_writer.py, lines 29-31
PROCESSED_PNG_PATH(TIC_ID) ==
    path_join("Process_Light_Curve_Module/data/processed", TIC_ID \o <<"_processed", ".png">>)
METRICS_PNG_PATH(TIC_ID) ==
    path_join("visualize_transits_module/data",
              TIC_ID \o <<"_processed", "_metrics", ".png">>)
RESULTS_JSON_PATH(TIC_ID) ==
    path_join("Analyze_Module/results", TIC_ID \o <<"_processed", "_results", ".json">>)

\* the directories of config.json, and those db_writer.py is written for
RawDataDir == "Data_Download_Module/data/raw"
ProcessedDirs == {"Process_Light_Curve_Module/data/processed", "data/processed"}
OutputDirs == {"Analyze_Module/results", "data/results"}

\* the lines of star_ids_file after line.strip(): no blank at either end
StarIds ==
    {q \in SeqsUpTo({"TIC", "KIC", " ", "_", "1"}, MaxName) :
        q # <<>> /\ Head(q) # " " /\ q[Len(q)] # " "}

\* a processed series long enough for the detector
TenSamples == Table(MinDataPoints, 0)

\* one identifier taken through the stages: the path each stage writes, the
\* path the next stage reads, the record the detector writes (written: the
\* detector found the processed file) and what the publisher recovers
\* (published: db_writer.py found the three files it checks for)
chain(in) ==
    LET raw == raw_output_path(in.star_id, RawDataDir)
        plot == plot_path(raw.name, in.processed_data_dir)
        processed == processed_fits_path(raw.name, in.processed_data_dir)
        reads == path_join(in.processed_fits_path, processed.name)
        results == results_path(reads.name, in.output_dir)
        record == run_bls(TenSamples.time, TenSamples.flux, TenSamples.flux_err,
                          [period_range |-> in.period_range], in.lib).result
        metrics == metrics_path(results.name)
        tic == tic_id_of(results.name)
    IN  [raw |-> raw, plot |-> plot, processed |-> processed, analyze_reads |-> reads,
         written |-> reads = processed,
         results |-> results, record |-> record, metrics |-> metrics, tic |-> tic,
         db_png |-> PROCESSED_PNG_PATH(tic.tic_id),
         db_metrics |-> METRICS_PNG_PATH(tic.tic_id),
         db_results |-> RESULTS_JSON_PATH(tic.tic_id),
         published |-> /\ reads = processed /\ plottable(record) /\ tic.ok
                       /\ PROCESSED_PNG_PATH(tic.tic_id) = plot
                       /\ METRICS_PNG_PATH(tic.tic_id) = metrics
                       /\ RESULTS_JSON_PATH(tic.tic_id) = results]

InitPath ==
    /\ NoPipeline
    /\ pc = "name"
    /\ BlsIdle /\ PreIdle /\ PubIdle
    /\ path_in \in [star_id : StarIds, processed_data_dir : ProcessedDirs,
                     processed_fits_path : ProcessedDirs, output_dir : OutputDirs,
                     period_range : {<<1, 3>>, <<2, 2>>}, lib : Library]
    /\ path_out = NoPathOut

name_call ==
    /\ pc = "name"
    /\ path_out' = chain(path_in)
    /\ pc' = "named"
    /\ UNCHANGED <<given, dirs, fetch_vars, process_vars, analyze_vars, publish_vars,
                   exit_code, bls_vars, pre_vars, pub_vars, path_in>>

NextPath == name_call

SpecPath == InitPath /\ [][NextPath]_vars

(***************************************************************************)
(* Properties                                                              *)
(***************************************************************************)
Last(q) == q[Len(q)]
Failed(e) == e.result = "None"
FetchLoopEntered == entry = "fetch" /\ env.config /\ star_ids # <<>>
FetchLoopLeft == FetchLoopEntered /\ pc \notin {"fetch", "fetch_loop"}
AnalyzeRunning == pc \in {"analyze", "analyze_loop"}

\* C1 (as claimed): in each of the three batch loops every item is
\* attempted once, in iteration order, whatever happens to the other items:
\* a loop is left only after its last item was attempted.
C1_FailureNeverAbortsBatch ==
    /\ \A k \in 1 .. Len(fetch_log) :
          k <= Len(star_ids) /\ fetch_log[k].star_id = star_ids[k]
    /\ pc = "fetch_loop" => Len(fetch_log) = i_fetch - 1
    /\ FetchLoopLeft => Len(fetch_log) = Len(star_ids)
    /\ \A k \in 1 .. Len(process_log) :
          k <= Len(list_raw) /\ process_log[k].file = list_raw[k]
    /\ pc = "process_loop" => Len(process_log) = i_process - 1
    /\ (pc = "done" /\ entry # "analyze") => Len(process_log) = Len(list_raw)
    /\ \A k \in 1 .. Len(analyze_log) :
          k <= Len(list_processed) /\ analyze_log[k].file = list_processed[k]
    /\ pc = "analyze_loop" => Len(analyze_log) = i_analyze - 1
    /\ ~AnalyzeRunning => Len(analyze_log) = Len(list_processed)

\* what does hold of the three loops: the loop of analyze_transits.py is
\* cut short only by an exception that leaves trigger_visualize after an
\* item whose analysis succeeded; the other two loops are never cut short
OnlyHandoffCutsLoopShort ==
    /\ FetchLoopLeft => Len(fetch_log) = Len(star_ids)
    /\ (pc = "done" /\ entry # "analyze") => Len(process_log) = Len(list_raw)
    /\ (~AnalyzeRunning /\ Len(analyze_log) < Len(list_processed)) =>
          /\ analyze_log # <<>>
          /\ Last(analyze_log).result
          /\ Last(analyze_log).visualize = "raise"

\* C2 (as claimed): a star whose acquisition failed in this batch is not
\* preprocessed, detected or published in this run.
C2_FailedItemNeverProcessed ==
    \A k \in 1 .. Len(fetch_log) :
        Failed(fetch_log[k]) =>
            /\ \A j \in 1 .. Len(process_log) : process_log[j].file # fetch_log[k].star_id
            /\ detected[fetch_log[k].star_id] = 0
            /\ db_writes[fetch_log[k].star_id] = 0

\* C3: when every acquisition of the batch fails, main returns False, the
\* process exits with code 1 and process_lightcurve.py is never triggered.
C3_ZeroSuccess ==
    (entry = "fetch" /\ \A k \in 1 .. Len(fetch_log) : Failed(fetch_log[k])) =>
        /\ trigger_log = <<>>
        /\ pc \in {"fetch", "fetch_loop", "done"}
        /\ exit_code["process"] = "none"
        /\ process_log = <<>>
        /\ pc = "done" => main_result = "False" /\ exit_code["fetch"] = "1"

C3_Witness ==
    /\ pc = "done"
    /\ Len(fetch_log) = 2
    /\ Failed(fetch_log[1]) /\ Failed(fetch_log[2])
    /\ raw_dir[2].exists

\* C4: when at least one acquisition succeeded, trigger_next_module is
\* called exactly once for the batch, after every identifier was attempted;
\* no later stage runs before the loop over the identifiers has ended.
C4_TriggerOnceAfterLoop ==
    entry = "fetch" =>
        /\ Len(trigger_log) <= 1
        /\ \A k \in 1 .. Len(trigger_log) :
              /\ trigger_log[k].after = Len(star_ids)
              /\ Len(fetch_log) = Len(star_ids)
        /\ pc \notin {"fetch", "fetch_loop", "done"} =>
              Len(fetch_log) = Len(star_ids) /\ Len(trigger_log) = 1
        /\ (pc = "done" /\ \E k \in 1 .. Len(fetch_log) : ~Failed(fetch_log[k])) =>
              Len(trigger_log) = 1

C4_Witness ==
    /\ pc = "done"
    /\ Len(fetch_log) = 2
    /\ ~Failed(fetch_log[1]) /\ Failed(fetch_log[2])
    /\ Len(trigger_log) = 1
    /\ trigger_log[1].outcome = "True"
    /\ process_log # <<>>

\* C5 (as claimed): a handoff that fails leaves the outcome of the stage
\* alone: main returns True when a fetch succeeded, and process_lightcurve
\* returns True for a file whose processed artifact was written.
C5_HandoffNeverChangesOutcome ==
    /\ (entry = "fetch" /\ pc = "done"
            /\ \E k \in 1 .. Len(fetch_log) : ~Failed(fetch_log[k])) =>
          main_result = "True" /\ exit_code["fetch"] = "0"
    /\ \A k \in 1 .. Len(process_log) :
          process_log[k].saved => process_log[k].result \in {"True", "child"}

\* the number of entries of a log that satisfy Test
Count(q, Test(_)) == Cardinality({k \in 1 .. Len(q) : Test(q[k])})

ReturnedTrue(e) == e.result = "True"
ReturnedFalse(e) == e.result = "False"
Fetched(e) == ~Failed(e)

\* C6 (as claimed): the summary is exact (success and failure count the
\* items that returned success and failure, and add up to the batch), and
\* the batch status is success whenever success >= 1.
C6_SummaryExact ==
    /\ successful_fetches = Count(fetch_log, Fetched)
    /\ pc \in {"process_loop", "done"} =>
          /\ summary.success = Count(process_log, ReturnedTrue)
          /\ summary.failure = Count(process_log, ReturnedFalse)
    /\ (pc = "done" /\ entry # "analyze") =>
          summary.success + summary.failure = Len(list_raw)
    /\ (entry = "fetch" /\ pc = "done" /\ successful_fetches >= 1) =>
          main_result = "True"

\* the part of C6 that does hold: the counts
SummaryCountsExact ==
    /\ successful_fetches = Count(fetch_log, Fetched)
    /\ pc \in {"process_loop", "done"} =>
          /\ summary.success = Count(process_log, ReturnedTrue)
          /\ summary.failure = Count(process_log, ReturnedFalse)
    /\ (pc = "done" /\ entry # "analyze") =>
          summary.success + summary.failure = Len(list_raw)

\* C7 (as claimed): in one run the result record of a processed series is
\* produced once, and the publisher steps run at most once per identifier.
C7_DetectedAndPublishedOnce ==
    \A id \in Ids : detected[id] <= 1 /\ visualized[id] <= 1 /\ db_writes[id] <= 1

AllAbsent(r) ==
    r.period = None /\ r.duration = None /\ r.depth = None /\ r.power = None

\* the degenerate inputs of run_bls: an empty column, columns of different
\* lengths, or a period range with minPeriod >= maxPeriod
Degenerate(in) ==
    \/ \E c \in {in.time, in.flux, in.flux_err} : c = <<>>
    \/ ~(Len(in.time) = Len(in.flux) /\ Len(in.time) = Len(in.flux_err))
    \/ ~(in.config.period_range[1] < in.config.period_range[2])

\* C8: on a degenerate input run_bls returns the candidate with all four
\* fields absent, raises nothing and does not start the box search.
C8_DegenerateIsAbsent ==
    (pc = "returned" /\ Degenerate(bls_in)) =>
        /\ AllAbsent(bls_out.result)
        /\ ~bls_out.raised
        /\ ~bls_out.searched

\* equal non-empty columns, a library that would find a candidate, and a
\* period range with minPeriod = maxPeriod
C8_Witness ==
    /\ pc = "returned"
    /\ Len(bls_in.time) = MaxLen /\ Len(bls_in.flux) = MaxLen
    /\ Len(bls_in.flux_err) = MaxLen
    /\ bls_in.config.period_range = <<2, 2>>
    /\ bls_in.lib = Grid1
    /\ AllAbsent(bls_out.result)

\* the rows of a table whose time and flux are both numbers
ValidSamples(data) ==
    Cardinality({i \in 1 .. Len(data.time) : data.time[i] # NaN /\ data.flux[i] # NaN})

\* C9: analyze_transit calls run_bls exactly for the files with at least 10
\* valid samples, counted after the mask: 9 are rejected, 10 are accepted.
C9_GateAtTen ==
    pc = "analyze_loop" =>
        \A k \in 1 .. Len(analyze_log) :
            LET e == analyze_log[k]
                n == ValidSamples(processed_dir[e.file].data)
            IN  /\ e.bls <=> n >= 10
                /\ n = 9 => ~e.result
                /\ n = 10 => e.result

\* one run of analyze_transits.py that met a file of 10 rows with 9 valid
\* samples, rejected, and a file with exactly 10 valid samples, accepted
C9_Witness ==
    /\ pc = "analyze_loop"
    /\ \E k \in 1 .. Len(analyze_log) :
          LET d == processed_dir[analyze_log[k].file].data
          IN  Len(d.time) = 10 /\ ValidSamples(d) = 9 /\ ~analyze_log[k].bls
    /\ \E k \in 1 .. Len(analyze_log) :
          LET d == processed_dir[analyze_log[k].file].data
          IN  ValidSamples(d) = 10 /\ analyze_log[k].bls /\ analyze_log[k].result

\* C10 (as claimed): for a processed series that is empty or has fewer than
\* 10 valid samples, or under an invalid period range, the detector stage
\* writes an all-absent record, reports success for the file, and the
\* publisher is triggered for it and completes.
C10_DegenerateIsPublished ==
    (pc = "analyze_loop" /\ env.plot /\ env.python) =>
        \A k \in 1 .. Len(analyze_log) :
            LET e == analyze_log[k]
                n == ValidSamples(processed_dir[e.file].data)
            IN  (n < 10 \/ config.period_range[1] >= config.period_range[2]) =>
                    /\ e.result
                    /\ results_dir[e.file].exists
                    /\ AllAbsent(results_dir[e.file].data)
                    /\ e.visualize = "0"

\* C11 (as claimed): a raw file whose validity mask selects no sample is a
\* failed item: process_lightcurve returns False, no processed artifact is
\* written for it and the detector is not triggered for it.
C11_EmptyAfterFilteringFails ==
    \A k \in 1 .. Len(process_log) :
        LET e == process_log[k]
            raw == raw_dir[e.file].data
        IN  (raw.readable /\ ValidSamples(raw) = 0) =>
                /\ e.result = "False"
                /\ ~e.saved
                /\ e.handoff = "none"

\* the number of rows of a raw column
Rows(col) == Len(col.cols[1])
UniformRows(raw) == Rows(raw.time) = Rows(raw.flux) /\ Rows(raw.flux) = Rows(raw.flux_err)
EqualLengths(data) ==
    Len(data.time) = Len(data.flux) /\ Len(data.flux) = Len(data.flux_err)

\* C12: every series process_lightcurve persists has three columns of one
\* length, and raw columns of different lengths give a failed item and no
\* processed artifact.
C12_LengthInvariant ==
    pc = "preprocessed" =>
        /\ pre_out.saved => EqualLengths(pre_out.data)
        /\ ~UniformRows(pre_in) => pre_out.ret = "False" /\ ~pre_out.saved

\* a 2-D time column of two rows, one of them dropped by the mask
C12_Witness ==
    /\ pc = "preprocessed"
    /\ pre_in.time.ndim = 2 /\ Rows(pre_in.time) = 2
    /\ pre_in.flux_err.cols[1] = <<NaN, 1>>
    /\ pre_out.saved
    /\ Len(pre_out.data.time) = 1 /\ pre_out.data.flux_err = <<1>>

Finite(x) == x # NaN /\ x # Inf

\* C13 (as claimed): a persisted series holds only finite timestamps and
\* finite brightness values.
C13_NoInvalidValueRemains ==
    (pc = "preprocessed" /\ pre_out.saved) =>
        \A i \in 1 .. Len(pre_out.data.time) :
            Finite(pre_out.data.time[i]) /\ Finite(pre_out.data.flux[i])

\* the part of C13 that does hold: a sample is kept exactly when neither
\* its timestamp nor its brightness is NaN
NoNaNRemains ==
    (pc = "preprocessed" /\ pre_out.saved) =>
        /\ \A i \in 1 .. Len(pre_out.data.time) :
              pre_out.data.time[i] # NaN /\ pre_out.data.flux[i] # NaN
        /\ Len(pre_out.data.time) =
              Cardinality({i \in 1 .. Rows(pre_in.time) :
                  pre_in.time.cols[1][i] # NaN /\ pre_in.flux.cols[1][i] # NaN})

\* a series that is already clean: 1-D columns of one length, no NaN in
\* the timestamps or the brightness
AlreadyClean(raw) ==
    /\ raw.time.ndim = 1 /\ raw.flux.ndim = 1 /\ raw.flux_err.ndim = 1
    /\ UniformRows(raw)
    /\ \A i \in 1 .. Rows(raw.time) :
          raw.time.cols[1][i] # NaN /\ raw.flux.cols[1][i] # NaN

\* the columns of a persisted table, read back as raw columns
ReadBack(data) ==
    [time |-> Column1D(data.time), flux |-> Column1D(data.flux),
     flux_err |-> Column1D(data.flux_err)]

\* C14: preprocessing a series that is already clean returns its three
\* columns unchanged, and preprocessing a persisted series again gives the
\* same series.
C14_FilteringIdempotent ==
    pc = "preprocessed" =>
        /\ AlreadyClean(pre_in) =>
              /\ pre_out.saved
              /\ pre_out.data.time = pre_in.time.cols[1]
              /\ pre_out.data.flux = pre_in.flux.cols[1]
              /\ pre_out.data.flux_err = pre_in.flux_err.cols[1]
        /\ pre_out.saved => preprocess(ReadBack(pre_out.data)) = pre_out

\* a clean series of two samples in an order the mask must keep, with an
\* infinite brightness and a NaN uncertainty that both stay
C14_Witness ==
    /\ pc = "preprocessed"
    /\ AlreadyClean(pre_in)
    /\ pre_in.time.cols[1] = <<2, 1>>
    /\ pre_in.flux.cols[1] = <<Inf, 7>>
    /\ pre_in.flux_err.cols[1] = <<1, NaN>>
    /\ pre_out.data.time = <<2, 1>>

\* C15: on a non-degenerate input whose search returns a grid, run_bls
\* returns the candidate of one grid point: its power is the largest of the
\* grid, no earlier grid point has that power, and period, duration, depth
\* and power are those of that one point.
C15_FirstMaximum ==
    (pc = "returned" /\ ~Degenerate(bls_in) /\ bls_in.lib # Raises) =>
        \E k \in 1 .. Len(bls_in.lib) :
            /\ bls_out.result = bls_in.lib[k]
            /\ \A j \in 1 .. Len(bls_in.lib) : bls_in.lib[j].power <= bls_in.lib[k].power
            /\ \A j \in 1 .. (k - 1) : bls_in.lib[j].power < bls_in.lib[k].power

\* a grid whose second and third points share the largest power: the
\* second is returned
C15_Witness ==
    /\ pc = "returned"
    /\ ~Degenerate(bls_in)
    /\ bls_in.lib = Grid1
    /\ bls_out.searched
    /\ bls_out.result = [period |-> 2, duration |-> 1, depth |-> 3, power |-> 9]

\* the fields of a result record in the order they are charted
KeyAt == <<"period", "duration", "depth", "power">>
Absent(results, key) == IF key \in DOMAIN results THEN results[key] = None ELSE TRUE

\* C17 (as claimed): for a result file that exists, the value charted for
\* a field that is null or missing is 0, and the metrics chart is produced.
C17_AbsentChartsZero ==
    (pc = "published" /\ pub_in.results_exists) =>
        /\ Len(pub_out.values) = 4
        /\ \A k \in 1 .. 4 : Absent(pub_in.results, KeyAt[k]) => pub_out.values[k] = 0
        /\ pub_out.metrics

\* the part of C17 that does hold: a field missing from the file is charted
\* as 0, and a file without a null field gets its chart
MissingFieldChartsZero ==
    (pc = "published" /\ pub_in.results_exists) =>
        /\ \A k \in 1 .. 4 : KeyAt[k] \notin DOMAIN pub_in.results => pub_out.values[k] = 0
        /\ (\A k \in 1 .. 4 : get(pub_in.results, KeyAt[k]) # None) => pub_out.metrics

\* db_writer.py is started and finds the three files it checks for
SinksReached(in) ==
    /\ in.results_exists /\ in.tic /\ in.logs /\ in.processed_png
    /\ \A k \in 1 .. 4 : get(in.results, KeyAt[k]) # None

\* C18: once db_writer.py reaches its sinks, both uploads and the insert are
\* attempted, whichever of the sinks fail.
C18_SinksIndependent ==
    (pc = "published" /\ SinksReached(pub_in)) =>
        pub_out.calls = <<"upload processed", "upload metrics", "insert">>

\* the object store is down, the insert is attempted and succeeds
C18_Witness ==
    /\ pc = "published"
    /\ SinksReached(pub_in)
    /\ ~pub_in.minio /\ pub_in.oracle
    /\ ~pub_out.uploaded /\ pub_out.inserted
    /\ Len(pub_out.calls) = 3

\* C19 (as claimed): the publish step reports failure exactly when the
\* object-store uploads and the metadata insert all fail.
C19_FailsIffAllSinksFail ==
    (pc = "published" /\ SinksReached(pub_in)) =>
        /\ (~pub_out.uploaded /\ ~pub_out.inserted) => pub_out.exit = "1"
        /\ (pub_out.uploaded \/ pub_out.inserted) => pub_out.exit = "0"

\* what does hold: once the sinks are reached the publish step reports
\* success whatever the sinks do
PublishReportsSuccess ==
    (pc = "published" /\ SinksReached(pub_in)) =>
        pub_out.db_writer = "0" /\ pub_out.exit = "0"

\* a result record as json.dump writes it: the four fields, each a number
\* or null
FlatRecord(r) == DOMAIN r = Keys /\ \A k \in Keys : r[k] \in Nat \/ r[k] = None

\* a name without its last token
Stem(name) == SubSeq(name, 1, Len(name) - 1)

\* C16: a record the detector persists has exactly the fields period,
\* duration, depth and power, each a number or null, and lies at
\* {output_dir}/<name of the processed file without .fits>_results.json.
C16_RecordFormatAndPath ==
    (pc = "named" /\ path_out.written) =>
        /\ FlatRecord(path_out.record)
        /\ path_out.results.dir = path_in.output_dir
        /\ path_out.results.name = Stem(path_out.processed.name) \o <<"_results", ".json">>

\* an absent candidate written for "TIC 1" under a configured output_dir
C16_Witness ==
    /\ pc = "named"
    /\ path_out.written
    /\ path_in.star_id = <<"TIC", " ", "1">>
    /\ path_in.output_dir = "data/results"
    /\ AllAbsent(path_out.record)
    /\ path_out.results.name = <<"TIC", "_", "1", "_processed", "_results", ".json">>

\* the identifier the acquirer names the raw file with
FileId(star_id) == replace(star_id, <<" ">>, <<"_">>)

\* C20 (as claimed): every path is made of the identifier and the
\* configured directory, each stage reads the path the stage before it
\* wrote, and the publisher recovers the identifier of the raw file.
C20_NamingRoundTrip ==
    pc = "named" =>
        LET ID == FileId(path_in.star_id)
        IN  /\ path_out.raw = path_join(RawDataDir, ID \o <<".fits">>)
            /\ path_out.processed =
                  path_join(path_in.processed_data_dir, ID \o <<"_processed", ".fits">>)
            /\ path_out.plot =
                  path_join(path_in.processed_data_dir, ID \o <<"_processed", ".png">>)
            /\ path_out.analyze_reads = path_out.processed
            /\ path_out.results =
                  path_join(path_in.output_dir, ID \o <<"_processed", "_results", ".json">>)
            /\ path_out.metrics.name = ID \o <<"_processed", "_metrics", ".png">>
            /\ path_out.tic.ok /\ path_out.tic.tic_id = ID
            /\ path_out.db_png = path_out.plot
            /\ path_out.db_metrics = path_out.metrics
            /\ path_out.db_results = path_out.results

\* what does hold: the names round-trip for every identifier, and the whole
\* chain does for an identifier that starts with TIC under the directories
\* db_writer.py is written for
NamingRoundTripDefaultDirs ==
    pc = "named" =>
        LET ID == FileId(path_in.star_id)
        IN  /\ path_out.raw.name = ID \o <<".fits">>
            /\ path_out.processed.name = ID \o <<"_processed", ".fits">>
            /\ path_out.results.name = ID \o <<"_processed", "_results", ".json">>
            /\ path_out.metrics.name = ID \o <<"_processed", "_metrics", ".png">>
            /\ (/\ startswith(path_in.star_id, <<"TIC">>)
                /\ path_in.processed_data_dir = "Process_Light_Curve_Module/data/processed"
                /\ path_in.processed_fits_path = path_in.processed_data_dir
                /\ path_in.output_dir = "Analyze_Module/results") =>
                  /\ path_out.tic.ok /\ path_out.tic.tic_id = ID
                  /\ path_out.analyze_reads = path_out.processed
                  /\ path_out.db_png = path_out.plot
                  /\ path_out.db_metrics = path_out.metrics
                  /\ path_out.db_results = path_out.results

(***************************************************************************)
(* C21: a stage process ends with exit code 0 only when its stage          *)
(* succeeded: the acquisition with at least one fetched star, the          *)
(* preprocessing with at least one processed file, the detector (invoked   *)
(* on its own) with at least one analysed file.  A stage none of whose     *)
(* items succeeded ends with exit code 1.  (Stated for the runs whose      *)
(* configuration loads; C22 is about the others.)                          *)
(***************************************************************************)
C21_ExitCodeReflectsOutcome ==
    env.config =>
        /\ exit_code["fetch"] = "0" => successful_fetches > 0
        /\ exit_code["process"] = "0" => success_count > 0
        /\ (entry = "analyze" /\ exit_code["analyze"] = "0") =>
              \E k \in 1 .. Len(analyze_log) : analyze_log[k].result

(***************************************************************************)
(* C22: a stage invoked on a host whose config.json cannot be loaded       *)
(* processes no item, writes no artifact, triggers no next stage and ends  *)
(* with a non-zero exit code.                                              *)
(***************************************************************************)
ConfigErrorTouchesNothing ==
    /\ fetch_log = <<>> /\ process_log = <<>> /\ analyze_log = <<>>
    /\ trigger_log = <<>>
    /\ \A id \in Ids : detected[id] = 0 /\ visualized[id] = 0 /\ db_writes[id] = 0
    /\ \A s \in Entries \ {entry} : exit_code[s] = "none"

C22_ConfigErrorIsFatal ==
    (~env.config /\ pc = "done") =>
        /\ ConfigErrorTouchesNothing
        /\ exit_code[entry] = "1"

\* the part of C22 the stages keep: nothing is processed, written or
\* triggered, and the artifact directories stay as they were
ConfigErrorLeavesArtifacts ==
    ~env.config =>
        /\ ConfigErrorTouchesNothing
        /\ results_dir = [id \in Ids |-> NoResult] /\ metrics_dir = {}

(***************************************************************************)
(* C23: the detector started by process_lightcurve for one processed file  *)
(* analyses exactly that file: every call of analyze_transit of the child  *)
(* is for the file whose path was handed over, and there is one such call. *)
(***************************************************************************)
C23_DetectorAnalysesOnlyItsArgument ==
    (entry # "analyze" /\ pc = "analyze_loop") =>
        /\ Len(analyze_log) <= 1
        /\ \A k \in 1 .. Len(analyze_log) :
              analyze_log[k].file = Last(process_log).file

(***************************************************************************)
(* C24: the detector is handed a processed file only after that file was   *)
(* written: a call of process_lightcurve whose write of the processed      *)
(* FITS failed reports failure and starts no detector.                     *)
(***************************************************************************)
C24_HandoffOnlyAfterWrite ==
    \A k \in 1 .. Len(process_log) :
        LET e == process_log[k]
        IN  (raw_dir[e.file].data.readable /\ ~e.saved) =>
                /\ e.handoff = "none"
                /\ e.result = "False"

(***************************************************************************)
(* C25: the items of a batch share no mutable state: the preview image     *)
(* written for an item shows the samples of that item only, and the        *)
(* processed series of an item is the masked raw series of that item.      *)
(***************************************************************************)
C25_PreviewHoldsOnlyItsItem ==
    /\ \A id \in Ids : png_lines[id] \subseteq {id}
    /\ \A k \in 1 .. Len(process_log) :
          LET e == process_log[k]
          IN  e.saved => processed_dir[e.file].data = clean(raw_dir[e.file].data)

\* the part of C25 that holds: the processed series of an item is made of
\* the raw series of that item alone
ProcessedSeriesOfItsItem ==
    \A k \in 1 .. Len(process_log) :
        LET e == process_log[k]
        IN  e.saved => processed_dir[e.file].data = clean(raw_dir[e.file].data)

(***************************************************************************)
(* C26: the box search is driven by the configured period range: every     *)
(* period of the searched grid, and so the period of the candidate, lies   *)
(* in [minPeriod, maxPeriod).                                              *)
(***************************************************************************)
C26_PeriodsWithinConfiguredRange ==
    (pc = "returned" /\ bls_out.searched /\ bls_in.lib # Raises) =>
        /\ \A i \in 1 .. Len(bls_in.lib) :
              /\ bls_in.config.period_range[1] <= bls_in.lib[i].period
              /\ bls_in.lib[i].period < bls_in.config.period_range[2]
        /\ bls_in.config.period_range[1] <= bls_out.result.period
        /\ bls_out.result.period < bls_in.config.period_range[2]

\* the valid rows of a table (time and flux are numbers) whose uncertainty
\* is NaN
NaNErrSamples(data) ==
    Cardinality({i \in 1 .. Len(data.time) :
                    data.time[i] # NaN /\ data.flux[i] # NaN /\ data.flux_err[i] = NaN})

(***************************************************************************)
(* C27: the uncertainty is filtered by the time/flux mask only.  The       *)
(* processed series keeps every sample whose time and flux are valid, the  *)
(* ones with a NaN uncertainty included, and the detector hands the        *)
(* uncertainties it has read to run_bls, NaN if any was NaN.               *)
(***************************************************************************)
C27_UncertaintyNeverChecked ==
    /\ \A k \in 1 .. Len(process_log) :
          LET e == process_log[k]
              raw == raw_dir[e.file].data
              out == processed_dir[e.file].data
          IN  e.saved =>
                 /\ Len(out.time) = ValidSamples(raw)
                 /\ Len(out.flux_err) = ValidSamples(raw)
                 /\ NaNErrSamples(out) = NaNErrSamples(raw)
    /\ pc = "analyze_loop" =>
          \A k \in 1 .. Len(analyze_log) :
              LET e == analyze_log[k]
              IN  e.bls => (e.nan_err <=> NaNErrSamples(processed_dir[e.file].data) > 0)

\* a raw series with a NaN uncertainty on a valid sample went through
\* process_lightcurve, and the detector handed the NaN to run_bls
C27_Witness ==
    /\ pc = "analyze_loop"
    /\ \E k \in 1 .. Len(analyze_log) :
          /\ analyze_log[k].bls /\ analyze_log[k].nan_err
          /\ \E j \in 1 .. Len(process_log) :
                /\ process_log[j].file = analyze_log[k].file
                /\ process_log[j].saved
                /\ NaNErrSamples(raw_dir[process_log[j].file].data) > 0

(***************************************************************************)
(* C28: the publisher works in a fixed order: the result file exists, the  *)
(* chart is rendered and written, and only then db_writer.py is started.   *)
(* db_writer.py is not started, and the sinks are not invoked, for a       *)
(* result file that is missing, whose chart failed, or whose name is not   *)
(* TIC..._processed_results.json; generate_plot.py then ends with code 1.  *)
(***************************************************************************)
C28_PublisherOrder ==
    pc = "published" =>
        /\ pub_out.metrics => pub_in.results_exists
        /\ (pub_out.db_writer # "none" \/ pub_out.calls # <<>>) =>
              pub_in.results_exists /\ pub_out.metrics /\ pub_in.tic
        /\ (~pub_in.results_exists \/ ~pub_out.metrics \/ ~pub_in.tic) =>
              /\ pub_out.db_writer = "none"
              /\ pub_out.calls = <<>>
              /\ ~pub_out.uploaded /\ ~pub_out.inserted
              /\ pub_out.exit = "1"

\* a result file whose chart was written but whose name does not match:
\* db_writer.py is not started although its files and sinks are all there
C28_Witness ==
    /\ pc = "published"
    /\ pub_in.results_exists /\ pub_out.metrics /\ ~pub_in.tic
    /\ pub_in.processed_png /\ pub_in.logs /\ pub_in.minio /\ pub_in.oracle
    /\ pub_out.db_writer = "none" /\ pub_out.exit = "1"

\* the states an item of the batch can end in
Published(id) == db_writes[id] > 0

ItemFailed(id) ==
    \/ \E k \in 1 .. Len(fetch_log) :
          fetch_log[k].star_id = id /\ fetch_log[k].result = "None"
    \/ \E k \in 1 .. Len(process_log) :
          process_log[k].file = id /\ process_log[k].result = "False"
    \/ \E k \in 1 .. Len(analyze_log) :
          /\ analyze_log[k].file = id
          /\ ~analyze_log[k].result \/ analyze_log[k].visualize \in {"1", "False"}

(***************************************************************************)
(* C29: a pipeline run started at the acquisition ends with every item of  *)
(* the batch in Published or in Failed.                                    *)
(***************************************************************************)
C29_EveryItemPublishedOrFailed ==
    (entry = "fetch" /\ pc = "done" /\ env.config) =>
        \A k \in 1 .. Len(star_ids) :
            Published(star_ids[k]) \/ ItemFailed(star_ids[k])

\* the parts of C29 that hold.  On a host where every script starts, every
\* section is configured and every write succeeds, each item ends in
\* Published or in Failed
EveryItemPublishedOrFailedOnSoundHost ==
    (env.python /\ env.sections = "all" /\ env.next = "ok" /\ env.analyze /\ env.plot
        /\ env.write)
        => C29_EveryItemPublishedOrFailed

\* control moves down the chain only, or back from a child that ended to
\* the loop of the parent that waits for it
Downstream ==
    {<<"fetch", "fetch_loop">>, <<"fetch_loop", "process">>,
     <<"process", "process_loop">>, <<"process_loop", "analyze">>,
     <<"analyze", "analyze_loop">>}
ChildEnded ==
    {<<"analyze", "process_loop">>, <<"analyze_loop", "process_loop">>}
    \cup {<<p, "done">> : p \in {"fetch", "fetch_loop", "process", "process_loop",
                                 "analyze", "analyze_loop"}}
ChainIsLinear == [][pc' # pc => <<pc, pc'>> \in Downstream \cup ChildEnded]_vars

\* an upper bound of the steps a run has left: every step of the chain is
\* a synchronous call or a blocking subprocess.run, every loop runs over a
\* list taken before the loop starts
ChildSteps == MaxBatch + 4
ProcessStepsLeft(i) == (Len(list_raw) + 1 - i) * ChildSteps + 1
ParentStepsLeft == IF entry = "analyze" THEN 0 ELSE ProcessStepsLeft(i_process + 1)
StepsLeft ==
    CASE pc = "done" -> 0
      [] pc = "analyze_loop" -> ParentStepsLeft + 1 + (Len(list_processed) + 1 - i_analyze)
      [] pc = "analyze" -> ParentStepsLeft + 1 + (MaxBatch + 2)
      [] pc = "process_loop" -> ProcessStepsLeft(i_process)
      [] pc = "process" -> MaxBatch * ChildSteps + 2
      [] pc = "fetch_loop" ->
            MaxBatch * ChildSteps + 3 + (Len(star_ids) + 1 - i_fetch)
      [] pc = "fetch" -> MaxBatch * ChildSteps + 4 + Len(star_ids)

\* the run terminates: every step lowers StepsLeft, which is never
\* negative and is 0 only when the run is over
StepsLeftDecreases == [][StepsLeft' < StepsLeft]_vars
StepsLeftBounded ==
    /\ StepsLeft >= 0
    /\ StepsLeft = 0 <=> pc = "done"

\* the second invocation was given what the first was given: the provider
\* delivered the same tables for the same stars
SameInput == entry = "fetch" => fetch_log = before.fetch_log

(***************************************************************************)
(* C30: a stage invoked a second time on the same input leaves the         *)
(* artifact files it left the first time: the same raw files, the same     *)
(* processed files and previews, the same result records; each file holds  *)
(* what the stage writes for its input, whatever the file held before.     *)
(***************************************************************************)
C30_RerunLeavesSameFiles ==
    (pc = "done" /\ run > 1 /\ SameInput) =>
        /\ raw_dir = before.raw
        /\ processed_dir = before.processed
        /\ png_dir = before.png
        /\ png_lines = before.png_lines
        /\ result_files = before.results

\* a second preprocessing run that has rewritten a processed file and its
\* preview, and a second detection that has rewritten a result record
C30_Witness ==
    /\ pc = "done" /\ run > 1 /\ SameInput
    /\ \E k \in 1 .. Len(process_log) :
          /\ process_log[k].saved
          /\ before.processed[process_log[k].file].exists
          /\ process_log[k].file \in before.png
    /\ \E id \in Ids : id \in before.results /\ detected[id] > 0

\* the four fields of a candidate are all present
AllPresent(r) ==
    r.period # None /\ r.duration # None /\ r.depth # None /\ r.power # None

(***************************************************************************)
(* C31: the candidate run_bls returns is all-or-nothing: its four fields   *)
(* are all present or all absent, on every return path; when the box       *)
(* search raises, the candidate is the all-absent one and no exception     *)
(* leaves run_bls.                                                         *)
(***************************************************************************)
C31_CandidateAllOrNothing ==
    pc = "returned" =>
        /\ AllPresent(bls_out.result) \/
              (bls_out.result.period = None /\ bls_out.result.duration = None
                  /\ bls_out.result.depth = None /\ bls_out.result.power = None)
        /\ (bls_out.searched /\ bls_in.lib = Raises) =>
              /\ bls_out.result.period = None /\ bls_out.result.duration = None
              /\ bls_out.result.depth = None /\ bls_out.result.power = None
              /\ ~bls_out.raised
        /\ (bls_out.searched /\ bls_in.lib # Raises) => AllPresent(bls_out.result)

\* the box search was started on valid columns and raised
C31_Witness ==
    /\ pc = "returned"
    /\ bls_out.searched /\ bls_in.lib = Raises
    /\ bls_in.time # <<>> /\ Len(bls_in.time) = Len(bls_in.flux)
    /\ bls_out.result.power = None

\* the three artifacts db_writer.py looks for
ThreeArtifacts == pub_in.processed_png /\ pub_in.metrics_png /\ pub_in.results_exists

(***************************************************************************)
(* C32: db_writer.py invokes no sink unless the processed preview, the     *)
(* metrics chart and the result record of the identifier all exist: with   *)
(* one of them missing neither upload nor the insert is attempted.  With   *)
(* all three it attempts the upload of the preview, the upload of the      *)
(* chart and then the insert, in that order.                               *)
(***************************************************************************)
C32_SinksNeedThreeArtifacts ==
    pc = "written" =>
        /\ ~ThreeArtifacts =>
              pub_out.calls = <<>> /\ ~pub_out.uploaded /\ ~pub_out.inserted
        /\ (ThreeArtifacts /\ pub_in.logs) =>
              pub_out.calls = <<"upload processed", "upload metrics", "insert">>

\* only the metrics chart is missing and both sinks are up: nothing is
\* attempted
C32_Witness ==
    /\ pc = "written"
    /\ pub_in.processed_png /\ ~pub_in.metrics_png /\ pub_in.results_exists
    /\ pub_in.logs /\ pub_in.minio /\ pub_in.oracle
    /\ pub_out.calls = <<>> /\ pub_out.db_writer = "0"

\* the paths the stages derive for another identifier of the batch, under
\* the same configuration
PathsOf(other) == chain([path_in EXCEPT !.star_id = other])

\* no artifact path of the two identifiers is the same
Disjoint(a, b) ==
    /\ a.raw # b.raw
    /\ a.processed # b.processed
    /\ a.plot # b.plot
    /\ a.results # b.results
    /\ a.metrics # b.metrics

(***************************************************************************)
(* C33: the artifact paths are injective in the identifier: two distinct   *)
(* identifiers never share a raw, a processed, a preview, a result or a    *)
(* metrics path.                                                           *)
(***************************************************************************)
C33_PathsInjective ==
    pc = "named" =>
        \A other \in StarIds \ {path_in.star_id} : Disjoint(PathsOf(other), path_out)

\* the part of C33 that holds: two identifiers that still differ after
\* their blanks are replaced by underscores share no path
PathsInjectiveInFileId ==
    pc = "named" =>
        \A other \in StarIds :
            FileId(other) # FileId(path_in.star_id) =>
                Disjoint(PathsOf(other), path_out)

=============================================================================
